---- MODULE Spec2Model ----
(***************************************************************************)
(* A model of the business-analysis pipeline of jira_gen:                  *)
(*   src/main.py         BusinessAnalysisSystem (three-stage crew,         *)
(*                       process_user_input, _extract_mermaid_diagrams)    *)
(*   src/api_backend.py  the Flask handlers analyze_requirements and       *)
(*                       get_latest_results, extract_mermaid_diagrams      *)
(*                                                                         *)
(* Text is a sequence of tokens.  Every token is a fixed string of         *)
(* characters (TokLen gives its length), so a text is the concatenation of *)
(* its tokens and the regular expressions of the source are matched on     *)
(* token boundaries.  The three-backtick fence marker of markdown is       *)
(* written ''' in the token names and in the comments quoting the source.  *)
(***************************************************************************)
EXTENDS Integers, Sequences, FiniteSets, TLC

VARIABLES
    \* ---- diagram extraction (pure functions applied to one text)
    text,            \* the text handed to the extractors
    blocks,          \* how the text was composed: its segments, in order
    apiDiagrams,     \* what api_backend.extract_mermaid_diagrams returned
    mainDiagrams,    \* what main._extract_mermaid_diagrams returned
    extracted        \* the extractors that have returned: "api", "main"

diagramVars == <<text, blocks, apiDiagrams, mainDiagrams, extracted>>

VARIABLES
    \* ---- GET /results/latest
    outputs,         \* the files of outputs/: name -> state and content
    latestResponse,  \* the response of get_latest_results (status 0: none yet)
    errorLog         \* what get_latest_results logged with logger.error

latestVars == <<outputs, latestResponse, errorLog>>

VARIABLES
    \* ---- tracker synchronization of one parsed payload
    payload,         \* the structured payload: its epics and stories
    cursor,          \* the work item the synchronizer attempts next
    sync             \* TrackerSyncResult so far: created, failed

syncVars == <<payload, cursor, sync>>

VARIABLES
    \* ---- the pipeline behind POST /analyze
    business_system, \* api_backend's one BusinessAnalysisSystem, or none
    rendered,        \* the crew's tasks: the runs whose inputs they render
    held,            \* the crew's tasks: the output each task holds
    pc,              \* per run: "waiting", "kickoff", "done"
    stage,           \* per run: the status of each stage
    prompt,          \* per run: what went into the running stage's prompt
    outs,            \* per run: the outputs of its stages so far
    result,          \* per run: what process_user_input returned
    response         \* per run: what analyze_requirements answered

pipelineVars == <<business_system, rendered, held, pc, stage, prompt, outs,
                  result, response>>

(***************************************************************************)
(* Text                                                                    *)
(***************************************************************************)

\* Number of characters of each token.
TokLen(t) ==
    CASE t = "'''mermaid"      -> 10
      [] t = "'''json"         -> 7
      [] t = "'''"             -> 3
      [] t = "\n"              -> 1
      [] t = " "               -> 1
      [] t = "x"               -> 1
      [] t = "#"               -> 1
      [] t = "A-->B;B-->C"     -> 11
      [] t = "graph TD"        -> 8
      [] t = "sequenceDiagram" -> 15
      [] t = "erDiagram"       -> 9
      [] t = "stateDiagram-v2" -> 15
      [] t = "x(200)"          -> 200
      [] t = "{A}"             -> 3
      [] t = "{B}"             -> 3
      [] t = "{"               -> 1
      [] t = "}"               -> 1
      [] t = "A"               -> 1
      [] t = "B"               -> 1
      [] OTHER                 -> 1

RECURSIVE CharLen(_)
\* len(s) of the source: the number of characters of a text.
CharLen(s) == IF s = <<>> THEN 0 ELSE TokLen(Head(s)) + CharLen(Tail(s))

\* str.isspace() of a token.
IsSpace(t) == t \in {" ", "\n"}

SetMin(S) == CHOOSE x \in S : \A y \in S : x <= y
SetMax(S) == CHOOSE x \in S : \A y \in S : y <= x

\* str.strip(): the text without its leading and trailing whitespace.
Strip(s) ==
    LET solid == {i \in 1..Len(s) : ~IsSpace(s[i])}
    IN  IF solid = {} THEN <<>> ELSE SubSeq(s, SetMin(solid), SetMax(solid))

RECURSIVE Flatten(_)
Flatten(ss) == IF ss = <<>> THEN <<>> ELSE Head(ss) \o Flatten(Tail(ss))

\* A token whose characters begin with three backticks.
StartsWithFence(t) == t \in {"'''", "'''json", "'''mermaid"}

(***************************************************************************)
(* re.findall(r"'''mermaid\n(.*?)\n'''", text, re.DOTALL)                  *)
(***************************************************************************)

\* The opening "'''<tag>\n" matches at token i.
OpensAt(s, tag, i) == i + 1 <= Len(s) /\ s[i] = tag /\ s[i + 1] = "\n"

\* The closing "\n'''" matches at token j (the fence token may go on, as in
\* "\n'''json": the pattern only asks for its first three characters).
ClosesAt(s, j) == j + 1 <= Len(s) /\ s[j] = "\n" /\ StartsWithFence(s[j + 1])

\* Variant of FirstClose in which (.*?) is greedy: the last closing fence.
FirstCloseGreedy(s, from) ==
    LET closes == {j \in from..Len(s) : ClosesAt(s, j)}
    IN  IF closes = {} THEN 0 ELSE SetMax(closes)

\* The lazy (.*?) ends at the first closing fence at or after `from`; 0: none.
FirstClose(s, from) ==
    LET closes == {j \in from..Len(s) : ClosesAt(s, j)}
    IN  IF closes = {} THEN 0 ELSE SetMin(closes)

RECURSIVE FindAllFenced(_, _, _)
\* The groups of all non-overlapping matches, scanning from token i.
FindAllFenced(s, tag, i) ==
    IF i > Len(s) THEN <<>>
    ELSE IF OpensAt(s, tag, i) /\ FirstClose(s, i + 2) # 0
         THEN LET j == FirstClose(s, i + 2)
              IN  <<SubSeq(s, i + 2, j - 1)>> \o FindAllFenced(s, tag, j + 2)
         ELSE FindAllFenced(s, tag, i + 1)

(***************************************************************************)
(* api_backend.extract_mermaid_diagrams                                    *)
(***************************************************************************)

\* f'Diagram {i}'
DiagramTitle(i) == <<"Diagram", i>>

extract_mermaid_diagrams(s) ==
    IF s = <<>> THEN <<>>
    ELSE LET matches == FindAllFenced(s, "'''mermaid", 1)
         IN  [i \in 1..Len(matches) |->
                 [title |-> DiagramTitle(i), code |-> Strip(matches[i])]]

(***************************************************************************)
(* main.BusinessAnalysisSystem._extract_mermaid_diagrams                   *)
(***************************************************************************)

\* The keyword each fallback pattern starts with, in the order of
\* diagram_patterns.
DiagramKeywords == <<"graph TD", "sequenceDiagram", "erDiagram", "stateDiagram-v2">>

\* The lookahead (?=\n\n|\n#|\nsequence|\ngraph|\nerDiagram|\nstateDiagram|$)
\* under re.MULTILINE matches before token j: '$' matches at the end of the
\* text and before every newline, which covers every other alternative.
LookaheadAt(s, j) == j > Len(s) \/ s[j] = "\n"

RECURSIVE FindAllKeyword(_, _, _)
\* re.findall of one fallback pattern: from the keyword, lazily, to the first
\* place the lookahead matches.
FindAllKeyword(s, kw, i) ==
    IF i > Len(s) THEN <<>>
    ELSE IF s[i] = kw
         THEN LET j == SetMin({k \in (i + 1)..(Len(s) + 1) : LookaheadAt(s, k)})
              IN  <<SubSeq(s, i, j - 1)>> \o FindAllKeyword(s, kw, j)
         ELSE FindAllKeyword(s, kw, i + 1)

\* The loop over diagram_patterns: matches.extend(found), pattern by pattern.
FallbackMatches(s) ==
    Flatten([p \in 1..Len(DiagramKeywords) |-> FindAllKeyword(s, DiagramKeywords[p], 1)])

\* "if cleaned and len(cleaned) > 10"
MinDiagramLen == 10

KeepDiagram(cleaned) == cleaned # <<>> /\ CharLen(cleaned) > MinDiagramLen

RECURSIVE CleanMatches(_)
CleanMatches(ms) ==
    IF ms = <<>> THEN <<>>
    ELSE LET cleaned == Strip(Head(ms))
         IN  (IF KeepDiagram(cleaned) THEN <<cleaned>> ELSE <<>>)
                 \o CleanMatches(Tail(ms))

main_extract_mermaid_diagrams(s) ==
    LET fenced  == FindAllFenced(s, "'''mermaid", 1)
        matches == IF fenced = <<>> THEN FallbackMatches(s) ELSE fenced
    IN  CleanMatches(matches)

(***************************************************************************)
(* Texts for the diagram extractors: a text is composed of segments, each  *)
(* prose, a well-fenced diagram block (fence line '''mermaid, newline,     *)
(* body, newline, closing fence) or an unfenced diagram body that starts   *)
(* with a diagram keyword.                                                 *)
(***************************************************************************)

MaxSegments == 3

FencedBlock(body) == <<"'''mermaid", "\n">> \o body \o <<"\n", "'''">>

BlockBodies ==
    { <<"x">>,
      <<"A-->B;B-->C">>,
      <<" ", "A-->B;B-->C", "\n">>,
      <<"graph TD", "\n", "x">>,
      <<"graph TD", "\n", "A-->B;B-->C">>,
      <<>> }

ProseTexts ==
    { <<"x", "\n">>,
      <<"\n">>,
      <<"#", "x", "\n", "\n">>,
      <<"'''json", "\n", "{A}", "\n", "'''", "\n">> }

KeywordBodies ==
    { <<"graph TD", "\n", " ", "A-->B;B-->C">>,
      <<"graph TD", " ", "A-->B;B-->C">>,
      <<"sequenceDiagram", "\n", " ", "x">>,
      <<"erDiagram", "\n", " ", "A-->B;B-->C">>,
      <<"stateDiagram-v2", "\n", " ", "x", "\n">> }

Segments ==
    {[kind |-> "block", body |-> b, toks |-> FencedBlock(b)] : b \in BlockBodies}
    \cup {[kind |-> "prose", body |-> p, toks |-> p] : p \in ProseTexts}
    \cup {[kind |-> "keyword", body |-> k, toks |-> k] : k \in KeywordBodies}

SegmentLists == UNION {[1..n -> Segments] : n \in 0..MaxSegments}

TextOf(segs) == Flatten([i \in 1..Len(segs) |-> segs[i].toks])

IsBlock(seg) == seg.kind = "block"
IsKeyword(seg) == seg.kind = "keyword"

\* The bodies of the well-fenced blocks of a composed text, in source order.
BlockBodiesOf(segs) ==
    LET bs == SelectSeq(segs, IsBlock) IN [i \in 1..Len(bs) |-> bs[i].body]

DiagramInit ==
    /\ blocks \in SegmentLists
    /\ text = TextOf(blocks)
    /\ apiDiagrams = <<>>
    /\ mainDiagrams = <<>>
    /\ extracted = {}

\* api_backend.extract_mermaid_diagrams(text)
ExtractApi ==
    /\ "api" \notin extracted
    /\ apiDiagrams' = extract_mermaid_diagrams(text)
    /\ extracted' = extracted \cup {"api"}
    /\ UNCHANGED <<text, blocks, mainDiagrams, latestVars, syncVars, pipelineVars>>

\* BusinessAnalysisSystem._extract_mermaid_diagrams(text)
ExtractMain ==
    /\ "main" \notin extracted
    /\ mainDiagrams' = main_extract_mermaid_diagrams(text)
    /\ extracted' = extracted \cup {"main"}
    /\ UNCHANGED <<text, blocks, apiDiagrams, latestVars, syncVars, pipelineVars>>

DiagramNext == ExtractApi \/ ExtractMain

\* No text is being extracted from.
DiagramIdle ==
    /\ blocks = <<>>
    /\ text = <<>>
    /\ apiDiagrams = <<>>
    /\ mainDiagrams = <<>>
    /\ extracted = {}

(***************************************************************************)
(* C6, C7: the diagram extractors on composed texts                        *)
(***************************************************************************)

TrimmedBodies(segs) ==
    LET bodies == BlockBodiesOf(segs) IN [i \in 1..Len(bodies) |-> Strip(bodies[i])]

Titled(codes) == [i \in 1..Len(codes) |-> [title |-> <<"Diagram", i>>, code |-> codes[i]]]

LongerThanTen(code) == CharLen(code) > 10

\* C6 as claimed: for a text with N >= 1 well-fenced diagram blocks, both
\* extractors return exactly N diagrams, in source order, each the trimmed
\* body of its block (api_backend's with the titles Diagram 1 .. Diagram N).
C6_AllFencedBlocksReturned ==
    /\ "api" \in extracted => apiDiagrams = Titled(TrimmedBodies(blocks))
    /\ ("main" \in extracted /\ BlockBodiesOf(blocks) # <<>>)
           => mainDiagrams = TrimmedBodies(blocks)

\* C6 (amended): for a text with N well-fenced diagram blocks,
\* api_backend.extract_mermaid_diagrams returns exactly N diagrams, in source
\* order, each code the trimmed body of its block, titled Diagram 1 ..
\* Diagram N; main._extract_mermaid_diagrams returns, when N >= 1, in source
\* order the trimmed bodies of exactly those blocks whose trimmed body is
\* longer than 10 characters.
C6_FencedBlocksExtracted ==
    /\ "api" \in extracted => apiDiagrams = Titled(TrimmedBodies(blocks))
    /\ ("main" \in extracted /\ BlockBodiesOf(blocks) # <<>>)
           => mainDiagrams = SelectSeq(TrimmedBodies(blocks), LongerThanTen)

\* C6 witness: both extractors have returned for a text with two blocks, one
\* of them with surrounding whitespace to trim, one too short for main's.
C6_Witness ==
    /\ extracted = {"api", "main"}
    /\ Len(apiDiagrams) = 2
    /\ Len(mainDiagrams) = 1
    /\ \E i \in 1..Len(BlockBodiesOf(blocks)) :
           BlockBodiesOf(blocks)[i] # Strip(BlockBodiesOf(blocks)[i])

\* C7 as claimed: for a text with no fenced block and exactly one unfenced
\* keyword-prefixed diagram body, main._extract_mermaid_diagrams returns
\* exactly one diagram (through its keyword fallback).
C7_KeywordFallbackReturnsOne ==
    ( /\ "main" \in extracted
      /\ BlockBodiesOf(blocks) = <<>>
      /\ Len(SelectSeq(blocks, IsKeyword)) = 1 )
        => Len(mainDiagrams) = 1

(***************************************************************************)
(* JSON                                                                    *)
(***************************************************************************)

\* The tokens that are complete JSON documents.
JsonDocs == {"{A}", "{B}"}

NotSpace(t) == ~IsSpace(t)

\* json.loads(s): whitespace around the document is skipped; anything else
\* (no document, text before or after it, a fence marker) raises
\* json.JSONDecodeError.
json_loads(s) ==
    LET solid == SelectSeq(s, NotSpace)
    IN  IF Len(solid) = 1 /\ solid[1] \in JsonDocs
        THEN [ok |-> TRUE, value |-> solid[1]]
        ELSE [ok |-> FALSE, value |-> "JSONDecodeError"]

\* The whitespace that follows token i: the last index of the run of
\* whitespace tokens that starts at i + 1 (i itself when there is none).
RECURSIVE SpaceRunEnd(_, _)
SpaceRunEnd(s, i) ==
    IF i + 1 <= Len(s) /\ IsSpace(s[i + 1]) THEN SpaceRunEnd(s, i + 1) ELSE i

\* r"'''json\s*\n(.*?)\n'''" matched with its '''json at token i: the greedy
\* \s* gives back whitespace until a newline follows it, so the newlines of
\* the whitespace run are tried from the last to the first; the lazy group
\* then ends at the first closing fence.  The newline taken; 0: no match.
JsonMatchAt(s, i) ==
    IF i > Len(s) \/ s[i] # "'''json" THEN 0
    ELSE LET cands == {p \in (i + 1)..SpaceRunEnd(s, i) :
                           s[p] = "\n" /\ FirstClose(s, p + 1) # 0}
         IN  IF cands = {} THEN 0 ELSE SetMax(cands)

\* re.search(r"'''json\s*\n(.*?)\n'''", content, re.DOTALL): the group of the
\* leftmost match.
JsonFenceSearch(s) ==
    LET starts == {i \in 1..Len(s) : JsonMatchAt(s, i) # 0}
    IN  IF starts = {} THEN [found |-> FALSE, group |-> <<>>]
        ELSE LET p == JsonMatchAt(s, SetMin(starts))
             IN  [found |-> TRUE, group |-> SubSeq(s, p + 1, FirstClose(s, p + 1) - 1)]

\* content.strip().startswith("'''json")
StartsWithJsonFence(s) == Strip(s) # <<>> /\ Strip(s)[1] = "'''json"

\* lines = content.strip().split('\n'); lines[0] == "'''json" and
\* lines[-1] == "'''"
CleanlyFenced(s) ==
    LET t == Strip(s)
    IN  /\ Len(t) >= 3
        /\ t[1] = "'''json" /\ t[2] = "\n"
        /\ t[Len(t) - 1] = "\n" /\ t[Len(t)] = "'''"

\* '\n'.join(lines[1:-1]): what lies between the first and the last newline.
InsideLines(s) == LET t == Strip(s) IN SubSeq(t, 3, Len(t) - 2)

\* Variant of clean_content in which the search for a fenced block is the
\* alternative of the outer test: it is made when the text does not start
\* with the fence.
clean_content_layered(content) ==
    IF StartsWithJsonFence(content) /\ CleanlyFenced(content)
    THEN InsideLines(content)
    ELSE IF JsonFenceSearch(content).found
         THEN JsonFenceSearch(content).group
         ELSE content

\* get_latest_results, lines 116-127: the text handed to json.loads.
clean_content(content) ==
    IF StartsWithJsonFence(content)
    THEN IF CleanlyFenced(content)
         THEN InsideLines(content)
         ELSE IF JsonFenceSearch(content).found
              THEN JsonFenceSearch(content).group
              ELSE content
    ELSE content

(***************************************************************************)
(* api_backend.get_latest_results                                          *)
(***************************************************************************)

\* logger.error(f"Content preview: {content[:200]}...")
PreviewLen == 200

RECURSIVE Prefix(_, _)
\* s[:n]: the first n characters of a text, as (token, characters kept).
Prefix(s, n) ==
    IF s = <<>> \/ n <= 0 THEN <<>>
    ELSE IF TokLen(Head(s)) <= n
         THEN <<[tok |-> Head(s), chars |-> TokLen(Head(s))]>>
                  \o Prefix(Tail(s), n - TokLen(Head(s)))
         ELSE <<[tok |-> Head(s), chars |-> n]>>

Absent == [state |-> "absent", content |-> <<>>]
Unreadable == [state |-> "unreadable", content |-> <<>>]
Present(c) == [state |-> "present", content |-> c]

OutputFiles == <<"business_requirements.md", "jira_artifacts.json", "technical_design.md">>

\* results before any file is loaded (lines 99-104).
EmptyResults ==
    [business_requirements |-> [kind |-> "text", value |-> <<>>],
     jira_artifacts        |-> [kind |-> "json", value |-> "{}"],
     technical_design      |-> [kind |-> "text", value |-> <<>>],
     diagrams              |-> <<>>]

\* Variant of LoadJson without the "except json.JSONDecodeError" clause: the
\* error reaches the "except Exception" of the file loop, which logs it and
\* leaves the section as it was.
LoadJsonUncaught(content) ==
    LET parsed == json_loads(clean_content(content))
    IN  IF parsed.ok
        THEN [section |-> [kind |-> "json", value |-> parsed.value], log |-> <<>>]
        ELSE [section |-> EmptyResults.jira_artifacts,
              log |-> <<[what |-> "load_error", preview |-> <<>>]>>]

\* Lines 113-134: the section a .json file yields and what is logged.
LoadJson(content) ==
    LET parsed == json_loads(clean_content(content))
    IN  IF parsed.ok
        THEN [section |-> [kind |-> "json", value |-> parsed.value], log |-> <<>>]
        ELSE [section |-> [kind |-> "text", value |-> content],
              log |-> <<[what |-> "json_error", preview |-> <<>>],
                        [what |-> "content_preview",
                         preview |-> Prefix(content, PreviewLen)]>>]

\* One turn of the loop over the output files (lines 107-138).
LoadFile(file, isJson, before) ==
    IF file.state = "absent" THEN [section |-> before, log |-> <<>>]
    ELSE IF file.state = "unreadable"
         THEN [section |-> before, log |-> <<[what |-> "load_error", preview |-> <<>>]>>]
         ELSE IF isJson THEN LoadJson(file.content)
              ELSE [section |-> [kind |-> "text", value |-> file.content], log |-> <<>>]

\* The handler's results and log for the files of outputs/.
LatestResults(files) ==
    LET br == LoadFile(files["business_requirements.md"], FALSE,
                       EmptyResults.business_requirements)
        ja == LoadFile(files["jira_artifacts.json"], TRUE, EmptyResults.jira_artifacts)
        td == LoadFile(files["technical_design.md"], FALSE,
                       EmptyResults.technical_design)
        tech == td.section.value
    IN  [results |->
             [business_requirements |-> br.section,
              jira_artifacts        |-> ja.section,
              technical_design      |-> td.section,
              diagrams |-> IF tech # <<>> THEN extract_mermaid_diagrams(tech) ELSE <<>>],
         log |-> br.log \o ja.log \o td.log]

MaxContentLen == 6

JsonAlphabet == {"'''json", "'''", "\n", "x", "{A}"}

\* Contents of outputs/jira_artifacts.json: every text over JsonAlphabet up to
\* MaxContentLen tokens, and texts longer than the logged preview.
JsonContents ==
    UNION {[1..n -> JsonAlphabet] : n \in 0..MaxContentLen}
    \cup {<<"x(200)">>, <<"x", "x(200)">>, <<"x(200)", "{A}">>}

MarkdownFiles(c) == {Absent, Present(c)}

LatestInit ==
    /\ outputs \in
         {[n \in {OutputFiles[1], OutputFiles[2], OutputFiles[3]} |->
              CASE n = "business_requirements.md" -> b
                [] n = "jira_artifacts.json"      -> j
                [] n = "technical_design.md"      -> t] :
            b \in MarkdownFiles(<<"x">>),
            j \in {Absent, Unreadable} \cup {Present(c) : c \in JsonContents},
            t \in MarkdownFiles(FencedBlock(<<"A-->B;B-->C">>))}
    /\ latestResponse = [status |-> 0, body |-> EmptyResults]
    /\ errorLog = <<>>

\* GET /results/latest
GetLatestResults ==
    /\ latestResponse.status = 0
    /\ latestResponse' = [status |-> 200, body |-> LatestResults(outputs).results]
    /\ errorLog' = LatestResults(outputs).log
    /\ UNCHANGED <<outputs, diagramVars, syncVars, pipelineVars>>

LatestNext == GetLatestResults

\* No request for the latest results.
LatestIdle ==
    /\ outputs = [n \in {OutputFiles[1], OutputFiles[2], OutputFiles[3]} |-> Absent]
    /\ latestResponse = [status |-> 0, body |-> EmptyResults]
    /\ errorLog = <<>>

(***************************************************************************)
(* tools.jira_tool.JiraTool.process_project_manager_output                 *)
(*                                                                         *)
(* main.py imports it (line 114) and reads its result (lines 116-123); the *)
(* file tools/jira_tool.py is not among the sources, so the tracker        *)
(* synchronizer is modelled from the specification (sections 3, 4.3, 7).   *)
(***************************************************************************)

\* WorkItemDraft.  A story names its parent epic by the epic's local key.
Epic(k) == [kind |-> "Epic", key |-> k, parent |-> 0]
Story(k, p) == [kind |-> "Story", key |-> k, parent |-> p]

\* parse_work_items: the payload's epics, then its stories.  A payload is
\* [epics |-> number of epics (keys 1..n), stories |-> parent key per story].
WorkItems(pl) ==
    [i \in 1..pl.epics |-> Epic(i)]
        \o [j \in 1..Len(pl.stories) |-> Story(j, pl.stories[j])]

\* A story's parent reference resolves within the payload.
Resolves(item, pl) ==
    item.kind = "Epic" \/ item.parent \in 1..pl.epics

\* What create_issue may answer.
RemoteOutcomes == {"created", "auth_error", "validation_error", "rate_limit_error"}

\* Variant of AfterItem in which the first failure aborts the batch: the
\* items after it are no longer attempted.
AfterItemAborting(res, item, resolved, outcome) ==
    IF res.failed # <<>> THEN res
    ELSE IF ~resolved
         THEN [res EXCEPT !.failed = Append(@, [item |-> item, reason |-> "unresolved_parent"])]
         ELSE IF outcome = "created"
              THEN [res EXCEPT !.created = Append(@, [item |-> item, id |-> Len(res.created) + 1])]
              ELSE [res EXCEPT !.failed = Append(@, [item |-> item, reason |-> outcome])]

\* sync, one item: an unresolved story is a parse error of that story; any
\* other item is created remotely and recorded in created with its external
\* id, or in failed with the remote error.
AfterItem(res, item, resolved, outcome) ==
    IF ~resolved
    THEN [res EXCEPT !.failed = Append(@, [item |-> item, reason |-> "unresolved_parent"])]
    ELSE IF outcome = "created"
         THEN [res EXCEPT !.created = Append(@, [item |-> item, id |-> Len(res.created) + 1])]
         ELSE [res EXCEPT !.failed = Append(@, [item |-> item, reason |-> outcome])]

\* TrackerSyncResult before the first item.
NoSync == [created |-> <<>>, failed |-> <<>>]

MaxItems == 5

\* The payloads of at most MaxItems work items; a parent key of 0, or one
\* past the payload's epics, names no epic of the payload.
Payloads ==
    UNION {[epics : {e}, stories : [1..s -> 0..e]] :
              <<e, s>> \in {p \in (0..MaxItems) \X (0..MaxItems) : p[1] + p[2] <= MaxItems}}

SyncInit ==
    /\ payload \in Payloads
    /\ cursor = 1
    /\ sync = NoSync

\* The synchronizer's loop, one work item per step.
SyncItem ==
    /\ cursor <= Len(WorkItems(payload))
    /\ \E outcome \in RemoteOutcomes :
           LET item == WorkItems(payload)[cursor]
           IN  /\ Resolves(item, payload) \/ outcome = "created"
               /\ sync' = AfterItem(sync, item, Resolves(item, payload), outcome)
    /\ cursor' = cursor + 1
    /\ UNCHANGED <<payload, diagramVars, latestVars, pipelineVars>>

SyncNext == SyncItem

\* No synchronization.
SyncIdle ==
    /\ payload = [epics |-> 0, stories |-> <<>>]
    /\ cursor = 1
    /\ sync = NoSync

\* sync over a whole batch: the items from index i on, with the remote
\* outcome of each.
RECURSIVE SyncFrom(_, _, _, _)
SyncFrom(res, pl, outcomes, i) ==
    IF i > Len(WorkItems(pl)) THEN res
    ELSE SyncFrom(AfterItem(res, WorkItems(pl)[i], Resolves(WorkItems(pl)[i], pl), outcomes[i]),
                  pl, outcomes, i + 1)

\* The payload each JSON document stands for.
PayloadOf(doc) ==
    CASE doc = "{A}" -> [epics |-> 2, stories |-> <<>>]
      [] doc = "{B}" -> [epics |-> 1, stories |-> <<1, 0>>]
      [] OTHER       -> [epics |-> 0, stories |-> <<>>]

\* extract_json of the specification (section 4.1): the fence stripped when
\* the trimmed text starts with a fenced JSON block, else the first fenced
\* JSON block anywhere, else the whole trimmed text.
extract_json(raw) == json_loads(clean_content_layered(raw))

IsEpicEntry(entry) == entry.item.kind = "Epic"
IsStoryEntry(entry) == entry.item.kind = "Story"

\* The dictionary main.py reads with .get('epics') and .get('stories'): the
\* created epics and the created stories, and what failed.
JiraResult(res) ==
    [epics   |-> SelectSeq(res.created, IsEpicEntry),
     stories |-> SelectSeq(res.created, IsStoryEntry),
     failed  |-> res.failed]

\* process_project_manager_output(raw): a payload that cannot be extracted
\* (MalformedPayload) degrades to the empty result.
PayloadIn(raw) ==
    IF extract_json(raw).ok THEN PayloadOf(extract_json(raw).value)
    ELSE [epics |-> 0, stories |-> <<>>]

process_project_manager_output(raw, outcomes) ==
    JiraResult(SyncFrom(NoSync, PayloadIn(raw), outcomes, 1))

(***************************************************************************)
(* The pipeline: BusinessAnalysisSystem and POST /analyze                  *)
(*                                                                         *)
(* api_backend.py builds one BusinessAnalysisSystem when the module is     *)
(* loaded (lines 22-28) and every request uses it.  Its crew holds the     *)
(* three tasks, each built once with the tasks it takes its context from   *)
(* (main.py lines 28-47); kickoff(inputs) renders the inputs into those    *)
(* tasks and runs them in order, a task reading the output its context     *)
(* tasks hold and storing its own.                                         *)
(***************************************************************************)

NumRuns == 2

\* The requests (pipeline runs).
Runs == 1..NumRuns

\* tasks=[business_analyst.task, architect.task, project_manager.task]
StageNames == <<"business_analyst", "architect", "project_manager">>

Stages == 1..Len(StageNames)

\* The stages whose output a stage is given as context: none for the
\* analyst, [business_analyst.task] for the architect, the analyst's and the
\* architect's task for the project manager.
Context(s) ==
    CASE s = 1 -> {}
      [] s = 2 -> {1}
      [] s = 3 -> {1, 2}

\* A stage's raw output: its text and, for the record, the runs whose input
\* went into it.
Output(s, from, txt) == [stage |-> s, inputs |-> from, text |-> txt]

\* The empty string the outputs start as (lines 90-92), and a task that holds
\* no output.
NoOutput == [stage |-> 0, inputs |-> {}, text |-> <<>>]

PendingAll == [s \in Stages |-> "Pending"]

\* Variant of CanStart that does not wait for the stage before to finish.
CanStartEarly(st, s) ==
    /\ st[s] = "Pending"
    /\ \A t \in Stages : t < s => st[t] # "Pending"

\* Process.sequential: a stage starts when every stage before it has
\* succeeded and it has not started yet.
CanStart(st, s) ==
    /\ st[s] = "Pending"
    /\ \A t \in Stages : t < s => st[t] = "Succeeded"

\* What goes into a stage's prompt: the inputs rendered into the crew's tasks
\* and the outputs its context tasks hold.
PromptInputs(s) ==
    rendered \cup UNION {held[c].inputs : c \in Context(s)}

\* f"Created {epics_count} epics and {stories_count} stories in Jira"
JiraSummary(epics_count, stories_count) ==
    <<"Created", epics_count, "epics and", stories_count, "stories in Jira">>

\* Variant of ErrorResult that drops str(e) for a fixed message.
ErrorResultGeneric(reason) == [status |-> "error", error_message |-> "Unknown error occurred"]

\* except Exception as e: return {'status': 'error', 'error_message': str(e)}
ErrorResult(reason) == [status |-> "error", error_message |-> reason]

\* Lines 90-106: tasks_output[i].raw when tasks_output has that entry, the
\* empty string otherwise.
TasksOutputAt(kres, i) ==
    IF Len(kres.tasks_output) > i - 1 THEN kres.tasks_output[i] ELSE NoOutput

\* Variant of EpicsCount that counts the epics attempted: the created ones
\* and those in failed.
EpicsCountAttempted(jira_result) ==
    Len(jira_result.epics) + Len(SelectSeq(jira_result.failed, IsEpicEntry))

\* epics_count = len(jira_result.get('epics', []))
EpicsCount(jira_result) == Len(jira_result.epics)

\* stories_count = len(jira_result.get('stories', []))
StoriesCount(jira_result) == Len(jira_result.stories)

\* Lines 89-134 of process_user_input, for the result kickoff returned and the
\* result of the tracker synchronization.
CompletedResult(kres, jira_result) ==
    LET business_req  == TasksOutputAt(kres, 1)
        jira_raw      == TasksOutputAt(kres, 3)
        technical_doc == IF business_req.text = <<>> /\ kres.has_raw
                         THEN kres.raw
                         ELSE TasksOutputAt(kres, 2)
    IN  [status                  |-> "completed",
         business_requirements   |-> business_req,
         jira_artifacts          |-> JiraSummary(EpicsCount(jira_result),
                                                 StoriesCount(jira_result)),
         jira_artifacts_raw      |-> jira_raw,
         jira_issues_created     |-> jira_result,
         technical_documentation |-> technical_doc,
         mermaid_diagrams        |-> main_extract_mermaid_diagrams(technical_doc.text)]

\* Variant of ResponseFor without the test of lines 66-69: an error result is
\* read with the defaults of result.get and sent as a success.
ResponseForUnchecked(res) ==
    IF res.status = "error"
    THEN [code |-> 200,
          body |-> [status  |-> "success",
                    results |-> [business_requirements |-> NoOutput,
                                 jira_artifacts        |-> JiraResult(NoSync),
                                 technical_design      |-> NoOutput,
                                 diagrams              |-> <<>>]]]
    ELSE [code |-> 200,
          body |-> [status  |-> "success",
                    results |->
                      [business_requirements |-> res.business_requirements,
                       jira_artifacts        |-> res.jira_issues_created,
                       technical_design      |-> res.technical_documentation,
                       diagrams |->
                         IF res.technical_documentation.text # <<>>
                         THEN extract_mermaid_diagrams(res.technical_documentation.text)
                         ELSE <<>>]]]

\* analyze_requirements, lines 65-87: the response for the result of
\* process_user_input.
ResponseFor(res) ==
    IF res.status = "error"
    THEN [code |-> 500, body |-> [error |-> res.error_message]]
    ELSE [code |-> 200,
          body |-> [status  |-> "success",
                    results |->
                      [business_requirements |-> res.business_requirements,
                       jira_artifacts        |-> res.jira_issues_created,
                       technical_design      |-> res.technical_documentation,
                       diagrams |->
                         IF res.technical_documentation.text # <<>>
                         THEN extract_mermaid_diagrams(res.technical_documentation.text)
                         ELSE <<>>]]]

NoResult == [status |-> "none"]
NoResponse == [code |-> 0]

\* What the completion provider and the tracker may answer in a
\* specification: the texts of each stage, the shapes of the object kickoff
\* returns (how many entries tasks_output has, whether it has raw: the cases
\* lines 94-110 tell apart), the completion failures.
Shape(n, r) == [entries |-> n, has_raw |-> r]

FullShapes == {Shape(Len(StageNames), TRUE)}
AllShapes == {Shape(n, r) : n \in 0..Len(StageNames), r \in BOOLEAN}

CompletionFailures == {"provider_error", "timeout"}

PipelineInit ==
    /\ business_system \in {"ready", "unavailable"}
    /\ rendered = {}
    /\ held = [s \in Stages |-> NoOutput]
    /\ pc = [r \in Runs |-> "waiting"]
    /\ stage = [r \in Runs |-> PendingAll]
    /\ prompt = [r \in Runs |-> {}]
    /\ outs = [r \in Runs |-> <<>>]
    /\ result = [r \in Runs |-> NoResult]
    /\ response = [r \in Runs |-> NoResponse]

\* POST /analyze with a body that has no requirements, or with no system:
\* lines 45-56.
Reject(r) ==
    /\ pc[r] = "waiting"
    /\ \E requirements \in {"", "requirements"} :
           /\ business_system = "unavailable" \/ requirements = ""
           /\ response' = [response EXCEPT ![r] =
                  IF business_system = "unavailable"
                  THEN [code |-> 500,
                        body |-> [error |-> "Business analysis system not available"]]
                  ELSE [code |-> 400,
                        body |-> [error |-> "Requirements field is required"]]]
    /\ pc' = [pc EXCEPT ![r] = "done"]
    /\ UNCHANGED <<business_system, rendered, held, stage, prompt, outs, result>>
    /\ UNCHANGED <<diagramVars, latestVars, syncVars>>

\* What the handler's own statements may raise before process_user_input is
\* called: request.json over a body that is not JSON, data.get over a body
\* that is not an object, requirements[:100] over a value that is no string.
HandlerFaults == {"bad_request", "attribute_error", "type_error"}

\* POST /analyze with such a body: the except clause of analyze_requirements
\* (lines 89-93) answers 500 with str(e).
HandlerFault(r) ==
    /\ pc[r] = "waiting"
    /\ business_system = "ready"
    /\ \E e \in HandlerFaults :
           response' = [response EXCEPT ![r] = [code |-> 500, body |-> [error |-> e]]]
    /\ pc' = [pc EXCEPT ![r] = "done"]
    /\ UNCHANGED <<business_system, rendered, held, stage, prompt, outs, result>>
    /\ UNCHANGED <<diagramVars, latestVars, syncVars>>

\* POST /analyze with requirements: process_user_input calls
\* self.crew.kickoff(inputs={'user_input': user_input, ...}) (lines 82-85),
\* which renders the inputs into the tasks of the one crew.
Kickoff(r) ==
    /\ pc[r] = "waiting"
    /\ business_system = "ready"
    /\ rendered' = {r}
    /\ pc' = [pc EXCEPT ![r] = "kickoff"]
    /\ UNCHANGED <<business_system, held, stage, prompt, outs, result, response>>
    /\ UNCHANGED <<diagramVars, latestVars, syncVars>>

\* The crew starts the next stage of run r: the stage's prompt is built from
\* the rendered inputs and from the outputs its context tasks hold.
StartStage(r) ==
    /\ pc[r] = "kickoff"
    /\ \E s \in Stages :
           /\ CanStart(stage[r], s)
           /\ stage' = [stage EXCEPT ![r][s] = "Running"]
           /\ prompt' = [prompt EXCEPT ![r] = PromptInputs(s)]
    /\ UNCHANGED <<business_system, rendered, held, pc, outs, result, response>>
    /\ UNCHANGED <<diagramVars, latestVars, syncVars>>

\* The completion call of a stage before the last returns: the task holds the
\* output and the run keeps it.
FinishStage(r, texts) ==
    /\ pc[r] = "kickoff"
    /\ \E s \in Stages :
           /\ stage[r][s] = "Running"
           /\ s < Len(StageNames)
           /\ \E txt \in texts[s] :
                  /\ held' = [held EXCEPT ![s] = Output(s, prompt[r], txt)]
                  /\ outs' = [outs EXCEPT ![r] = Append(@, Output(s, prompt[r], txt))]
           /\ stage' = [stage EXCEPT ![r][s] = "Succeeded"]
    /\ UNCHANGED <<business_system, rendered, pc, prompt, result, response>>
    /\ UNCHANGED <<diagramVars, latestVars, syncVars>>

\* The completion call of a stage fails or times out: kickoff raises, the
\* except clause of process_user_input returns the error result (lines
\* 136-138) and analyze_requirements answers 500 (lines 66-69).
FailStage(r) ==
    /\ pc[r] = "kickoff"
    /\ \E s \in Stages, reason \in CompletionFailures :
           /\ stage[r][s] = "Running"
           /\ stage' = [stage EXCEPT ![r][s] = "Failed"]
           /\ result' = [result EXCEPT ![r] = ErrorResult(reason)]
           /\ response' = [response EXCEPT ![r] = ResponseFor(ErrorResult(reason))]
    /\ pc' = [pc EXCEPT ![r] = "done"]
    /\ UNCHANGED <<business_system, rendered, held, prompt, outs>>
    /\ UNCHANGED <<diagramVars, latestVars, syncVars>>

\* The completion call of the last stage returns: kickoff returns, and
\* process_user_input reads the outputs (lines 89-110), synchronizes the
\* tracker (lines 114-117) and assembles the result (lines 119-134);
\* analyze_requirements answers (lines 65-87).
FinishRun(r, texts, shapes, remote) ==
    /\ pc[r] = "kickoff"
    /\ stage[r][Len(StageNames)] = "Running"
    /\ \E txt \in texts[Len(StageNames)], shape \in shapes :
         LET last == Output(Len(StageNames), prompt[r], txt)
             all  == Append(outs[r], last)
             kres == [tasks_output |-> SubSeq(all, 1, shape.entries),
                      has_raw      |-> shape.has_raw,
                      raw          |-> last]
             raw3 == TasksOutputAt(kres, 3).text
         IN  /\ held' = [held EXCEPT ![Len(StageNames)] = last]
             /\ outs' = [outs EXCEPT ![r] = all]
             /\ \E outcomes \in [1..Len(WorkItems(PayloadIn(raw3))) -> remote] :
                    LET res == CompletedResult(kres,
                                   process_project_manager_output(raw3, outcomes))
                    IN  /\ result' = [result EXCEPT ![r] = res]
                        /\ response' = [response EXCEPT ![r] = ResponseFor(res)]
    /\ stage' = [stage EXCEPT ![r][Len(StageNames)] = "Succeeded"]
    /\ pc' = [pc EXCEPT ![r] = "done"]
    /\ UNCHANGED <<business_system, rendered, prompt>>
    /\ UNCHANGED <<diagramVars, latestVars, syncVars>>

\* No request.
PipelineIdle ==
    /\ business_system = "ready"
    /\ rendered = {}
    /\ held = [s \in Stages |-> NoOutput]
    /\ pc = [r \in Runs |-> "waiting"]
    /\ stage = [r \in Runs |-> PendingAll]
    /\ prompt = [r \in Runs |-> {}]
    /\ outs = [r \in Runs |-> <<>>]
    /\ result = [r \in Runs |-> NoResult]
    /\ response = [r \in Runs |-> NoResponse]

\* The texts the stages answer with when only the order of events matters.
PlainTexts ==
    [s \in Stages |->
        CASE s = 1 -> {<<"x">>}
          [] s = 2 -> {FencedBlock(<<"A-->B;B-->C">>)}
          [] s = 3 -> {<<"'''json", "\n", "{A}", "\n", "'''">>}]

\* The tracker's answers when only the order of events matters: every item
\* is created.
PlainOutcomes == {"created"}

\* The texts of one run seen in full.
VariedTexts ==
    [s \in Stages |->
        CASE s = 1 -> {<<"x">>, <<>>}
          [] s = 2 -> {FencedBlock(<<"A-->B;B-->C">>),
                       <<"x", "\n">> \o FencedBlock(<<"x">>),
                       <<"graph TD", "\n", " ", "A-->B;B-->C">>}
          [] s = 3 -> {<<"'''json", "\n", "{A}", "\n", "'''">>,
                       <<"x", "\n", "'''json", "\n", "{B}", "\n", "'''">>,
                       <<"{B}">>,
                       <<"x">>}]

(***************************************************************************)
(* Specifications                                                          *)
(***************************************************************************)

vars == <<diagramVars, latestVars, syncVars, pipelineVars>>

\* Concurrent requests against the one system.
Init == PipelineInit /\ DiagramIdle /\ LatestIdle /\ SyncIdle
Next ==
    \E r \in Runs :
        \/ Reject(r)
        \/ HandlerFault(r)
        \/ Kickoff(r)
        \/ StartStage(r)
        \/ FinishStage(r, PlainTexts)
        \/ FailStage(r)
        \/ FinishRun(r, PlainTexts, FullShapes, PlainOutcomes)
Spec == Init /\ [][Next]_vars

\* One request, with every text and every shape of kickoff's result.
InitRun == PipelineInit /\ DiagramIdle /\ LatestIdle /\ SyncIdle
NextRun ==
    \/ Reject(1)
    \/ HandlerFault(1)
    \/ Kickoff(1)
    \/ StartStage(1)
    \/ FinishStage(1, VariedTexts)
    \/ FailStage(1)
    \/ FinishRun(1, VariedTexts, AllShapes, RemoteOutcomes)
SpecRun == InitRun /\ [][NextRun]_vars

\* The diagram extractors applied to composed texts.
InitDiagram == DiagramInit /\ LatestIdle /\ SyncIdle /\ PipelineIdle
SpecDiagram == InitDiagram /\ [][DiagramNext]_vars

\* GET /results/latest over the contents of outputs/.
InitLatest == LatestInit /\ DiagramIdle /\ SyncIdle /\ PipelineIdle
SpecLatest == InitLatest /\ [][LatestNext]_vars

\* The tracker synchronizer over parsed payloads.
InitSync == SyncInit /\ DiagramIdle /\ LatestIdle /\ PipelineIdle
SpecSync == InitSync /\ [][SyncNext]_vars

(***************************************************************************)
(* C1 - C5, C10: the pipeline                                              *)
(***************************************************************************)

\* Run r ended because the completion call of stage s failed.
EndedFailedAt(r, s) == pc[r] = "done" /\ stage[r][s] = "Failed"

\* C1 as claimed: a run whose stage 2 failed returns a result with status
\* Partially-Failed that carries stage 1's output; stage 1 is Succeeded,
\* stage 2 Failed with the reason, stage 3 still Pending.
C1_PartialResultReturned ==
    \A r \in Runs :
        EndedFailedAt(r, 2) =>
            /\ result[r].status = "Partially-Failed"
            /\ "business_requirements" \in DOMAIN result[r]
            /\ result[r].business_requirements = outs[r][1]
            /\ result[r].error_message \in CompletionFailures
            /\ stage[r] = <<"Succeeded", "Failed", "Pending">>

\* C1 (amended): a run whose stage 2 failed returns exactly
\* {status: error, error_message: the failure reason}, a result that carries
\* neither a Partially-Failed status nor stage 1's output (which the run had
\* produced), and the request is answered 500 with that reason; stage 1 had
\* succeeded, stage 2 failed and stage 3 was never attempted.
C1_ErrorResultReturned ==
    \A r \in Runs :
        EndedFailedAt(r, 2) =>
            /\ \E reason \in CompletionFailures :
                   /\ result[r] = [status |-> "error", error_message |-> reason]
                   /\ response[r] = [code |-> 500, body |-> [error |-> reason]]
            /\ Len(outs[r]) = 1 /\ outs[r][1].stage = 1
            /\ stage[r] = <<"Succeeded", "Failed", "Pending">>

\* C1 witness: a run has ended with its second stage failed by a timeout.
C1_Witness ==
    \E r \in Runs : EndedFailedAt(r, 2) /\ result[r].error_message = "timeout"

\* C2: within one run the stages execute strictly in the order analyst,
\* architect, project manager: a stage has started only if the stage before
\* it has succeeded, at most one stage of a run is Running, and every
\* stage's context stages come earlier in the order.
C2_StagesStrictlySequential ==
    /\ \A r \in Runs :
           /\ \A s \in Stages :
                  (s > 1 /\ stage[r][s] # "Pending") => stage[r][s - 1] = "Succeeded"
           /\ Cardinality({s \in Stages : stage[r][s] = "Running"}) <= 1
    /\ \A s \in Stages : Context(s) \subseteq 1..(s - 1)

\* C2 witness: the last stage of one run is running while another run is in
\* an earlier stage.
C2_Witness ==
    \E r, q \in Runs :
        /\ r # q
        /\ stage[r] = <<"Succeeded", "Succeeded", "Running">>
        /\ stage[q] = <<"Succeeded", "Running", "Pending">>

\* C3 as claimed: process_user_input reaches the tracker synchronization and
\* the result with status completed only with the output of all three
\* stages: no section of a completed result is the empty string put in the
\* place of a stage output.
C3_CompletedOnlyWithAllOutputs ==
    \A r \in Runs :
        (pc[r] = "done" /\ result[r].status = "completed") =>
            /\ result[r].business_requirements # NoOutput
            /\ result[r].technical_documentation # NoOutput
            /\ result[r].jira_artifacts_raw # NoOutput

\* C5 as claimed: concurrent runs share no mutable state: what goes into a
\* stage's prompt, every stage output of a run and the result returned to
\* its caller come from that run's own input only.
C5_RunsShareNoState ==
    \A r \in Runs :
        /\ prompt[r] \subseteq {r}
        /\ \A i \in 1..Len(outs[r]) : outs[r][i].inputs \subseteq {r}
        /\ result[r].status = "completed" =>
               /\ result[r].business_requirements.inputs \subseteq {r}
               /\ result[r].technical_documentation.inputs \subseteq {r}
               /\ result[r].jira_artifacts_raw.inputs \subseteq {r}

\* The created entries of a tracker result, and the items that failed.
CreatedItems(jira) ==
    {jira.epics[i].item : i \in 1..Len(jira.epics)}
        \cup {jira.stories[i].item : i \in 1..Len(jira.stories)}
FailedItems(jira) == {jira.failed[i].item : i \in 1..Len(jira.failed)}

Occurrences(entries, item) ==
    Cardinality({i \in 1..Len(entries) : entries[i].item = item})

SyncFinished == cursor > Len(WorkItems(payload))

\* C4: every work item the synchronizer has passed is in exactly one of
\* created and failed, whatever the outcome of the items before it, and no
\* item is skipped: when sync finishes every item of the parsed set is in
\* exactly one of the two lists.
C4_EveryItemInExactlyOneList ==
    /\ \A k \in 1..Len(WorkItems(payload)) :
           Occurrences(sync.created, WorkItems(payload)[k])
               + Occurrences(sync.failed, WorkItems(payload)[k])
             = IF k < cursor THEN 1 ELSE 0
    /\ Len(sync.created) + Len(sync.failed) = cursor - 1
    /\ cursor <= Len(WorkItems(payload)) + 1

\* C4 witness: a batch of 2 epics and 3 stories, one story naming no epic of
\* the payload and one epic refused by the tracker, is finished: 3 created,
\* 2 failed, and items after the first failure were created.
C4_Witness ==
    /\ SyncFinished
    /\ payload.epics = 2 /\ Len(payload.stories) = 3
    /\ Len(sync.created) = 3 /\ Len(sync.failed) = 2
    /\ sync.failed[1].item = Epic(1)
    /\ sync.failed[2].reason = "unresolved_parent"

(***************************************************************************)
(* C8, C9: JSON extraction in get_latest_results                           *)
(***************************************************************************)

JsonFile == outputs["jira_artifacts.json"]

Answered == latestResponse.status # 0

\* C8 as claimed: the three strategies in order: the fence stripped when the
\* trimmed text starts with a fenced JSON block, otherwise the first fenced
\* JSON block anywhere in the text (also when the text begins with prose),
\* otherwise the whole trimmed text; the section is the parsed value of what
\* that chain yields.
C8_ThreeStrategiesInOrder ==
    (Answered /\ JsonFile.state = "present") =>
        LET parsed == json_loads(clean_content_layered(JsonFile.content))
        IN  parsed.ok =>
                latestResponse.body.jira_artifacts = [kind |-> "json", value |-> parsed.value]

\* The text has no JSON fence and its body is not JSON.
Malformed(c) == (\A i \in 1..Len(c) : c[i] # "'''json") /\ ~json_loads(c).ok

\* C9 as claimed: for a text with no JSON fence and a body that is not JSON
\* the extraction fails without an uncaught fault, with a preview of the
\* text, and the section degrades to the empty structure.
C9_MalformedDegradesToEmpty ==
    (Answered /\ JsonFile.state = "present" /\ Malformed(JsonFile.content)) =>
        /\ latestResponse.status = 200
        /\ latestResponse.body.jira_artifacts = EmptyResults.jira_artifacts

\* C9 (amended): for a text with no JSON fence and a body that is not JSON,
\* get_latest_results catches the parse error, logs a preview of the first
\* 200 characters of the text and still answers 200; the section then holds
\* the unparsed text itself, not an empty structure.
C9_MalformedKeptAsText ==
    (Answered /\ JsonFile.state = "present" /\ Malformed(JsonFile.content)) =>
        /\ latestResponse.status = 200
        /\ latestResponse.body.jira_artifacts = [kind |-> "text", value |-> JsonFile.content]
        /\ \E i \in 1..Len(errorLog) :
               errorLog[i] = [what |-> "content_preview",
                              preview |-> Prefix(JsonFile.content, 200)]

\* C9 witness: a malformed text of 201 characters has been answered; the
\* logged preview stops inside its last token.
C9_Witness ==
    /\ Answered
    /\ JsonFile = Present(<<"x", "x(200)">>)
    /\ Len(errorLog) = 2
    /\ errorLog[2].preview = <<[tok |-> "x", chars |-> 1], [tok |-> "x(200)", chars |-> 199]>>
(***************************************************************************)
(* C11: the sections of the aggregated result                              *)
(***************************************************************************)

\* The section of a completed result that belongs to stage s.
SectionOf(res, s) ==
    CASE s = 1 -> res.business_requirements
      [] s = 2 -> res.technical_documentation
      [] s = 3 -> res.jira_artifacts_raw

\* C11 as claimed: in a completed result the section of every stage holds
\* either the empty value (the stage's output was absent) or the output of
\* that very stage of the run; no section holds text that came from another
\* stage or from the overall raw output of the run.
C11_SectionsHoldOwnStage ==
    \A r \in Runs :
        (pc[r] = "done" /\ result[r].status = "completed") =>
            \A s \in Stages :
                \/ SectionOf(result[r], s) = NoOutput
                \/ /\ s <= Len(outs[r])
                   /\ SectionOf(result[r], s) = outs[r][s]

(***************************************************************************)
(* C12: the response of POST /analyze                                      *)
(***************************************************************************)

ResultSections == {"business_requirements", "jira_artifacts", "technical_design", "diagrams"}

\* {status, results} with the four sections and a 2xx status.
SuccessResponse(resp) ==
    /\ resp.code \in 200..299
    /\ DOMAIN resp.body = {"status", "results"}
    /\ resp.body.status = "success"
    /\ DOMAIN resp.body.results = ResultSections

\* {error} with a status that is not 2xx.
ErrorResponse(resp) ==
    /\ resp.code \in 400..599
    /\ DOMAIN resp.body = {"error"}

\* What holds of every request in every state.
AnsweredWellFormed ==
    \A r \in Runs :
        /\ pc[r] = "done" <=> response[r] # NoResponse
        /\ pc[r] = "done" =>
               /\ SuccessResponse(response[r]) \/ ErrorResponse(response[r])
               /\ ~(SuccessResponse(response[r]) /\ ErrorResponse(response[r]))
               /\ result[r].status = "error" =>
                      /\ ErrorResponse(response[r])
                      /\ response[r].body.error = result[r].error_message
               /\ (\E s \in Stages : stage[r][s] = "Failed") => ErrorResponse(response[r])
               /\ SuccessResponse(response[r]) => result[r].status = "completed"

\* C12: every POST /analyze request ends in exactly one well-formed
\* response: {status, results} with the four sections and status 200, or
\* {error} with a status that is not 2xx; a failed stage, a handler fault or
\* a rejected body ends in the error response, a run that reported an error
\* is never answered with a success, and a response once sent is never
\* replaced.
C12_OneWellFormedResponse ==
    /\ []AnsweredWellFormed
    /\ [][\A r \in Runs : response[r] # NoResponse => response'[r] = response[r]]_vars

\* C12 witness: a request is answered 200 with a diagram although the
\* tracker refused an item of the payload.
C12_Witness ==
    \E r \in Runs :
        /\ pc[r] = "done"
        /\ SuccessResponse(response[r])
        /\ response[r].body.results.diagrams # <<>>
        /\ response[r].body.results.jira_artifacts.failed # <<>>

====
